---- MODULE Spec2Model ----
(***************************************************************************)
(* Model of optimum/graphcore/models/convnext/modeling_convnext.py:        *)
(*   - ConvNextPipelineMixin.parallelize and                               *)
(*     PipelinedConvNextForImageClassification.parallelize (device         *)
(*     placement of the embeddings, the encoder layers and the head),      *)
(*   - extend_hf_convnext_init and load_weights_from_fb_model (patched     *)
(*     construction and loading of a foreign checkpoint),                  *)
(*   - PipelinedConvNextForImageClassification.forward (selection of the   *)
(*     problem type and of the loss function).                             *)
(* Each of the three parts has its own specification (SpecPar, SpecLoad,   *)
(* SpecFwd) over its own variables; the variables of the other parts are   *)
(* left unchanged.                                                         *)
(***************************************************************************)
EXTENDS Integers, Sequences, FiniteSets, TLC

\* Python's None
None == "None"

\* ---------------------------------------------------------------- bounds
MaxIpus == 3
MaxLayersPerIpu == 2
NumStages == 2
MaxDepth == 2
MaxLabels == 2
MaxCkptKeys == 4
MaxLoadCalls == 1

\* ------------------------------------------------------------- variables
VARIABLES
    \* ipu_config and model shape read by parallelize()
    layers_per_ipu,      \* ipu_config.layers_per_ipu
    ipus_per_replica,    \* ipu_config.ipus_per_replica
    depths,              \* depths[s] = len(convnext.encoder.stages[s-1].layers)
    \* position and locals of parallelize()
    par_pc,              \* "start", "encoder", "done", "error"
    encoder_layer_ipu,   \* the list returned by get_layer_ipu
    stage_nr,
    stage_layer_idx,
    global_layer_idx,
    ipu_of,              \* block |-> ipu_id of every block wrapped by BeginBlock
    \* construction and checkpoint loading
    config,              \* the configuration object: field |-> value
    fb_state_dict,       \* keys of torch.load(path)["model"], in dictionary order
    state_dict,          \* the model's parameters: name |-> tensor
    init_pc,             \* "new", "inited", "scaled", "loading", "constructed", "failed"
    load_caller,         \* "init": called by __init__, "user": called directly
    load_classifier,     \* argument of load_weights_from_fb_model
    key_idx,             \* position of the loop over fb_state_dict.keys()
    new_state_dict,
    load_error,          \* None, "KeyError" (line 49), "RuntimeError" (load_state_dict)
    user_calls,          \* direct calls of load_weights_from_fb_model so far
    \* forward()
    training,            \* self.training
    last_labels,         \* dtype of the labels of the last call, None without labels
    loss_fct,            \* class of the loss function the last call used, or None
    label_smoothing,     \* label_smoothing of that loss function, in percent
    output               \* what the last call returned

par_vars == <<layers_per_ipu, ipus_per_replica, depths, par_pc, encoder_layer_ipu,
              stage_nr, stage_layer_idx, global_layer_idx, ipu_of>>

load_vars == <<fb_state_dict, state_dict, init_pc, load_caller, load_classifier,
               key_idx, new_state_dict, load_error, user_calls>>

fwd_vars == <<training, last_labels, loss_fct, label_smoothing, output>>

vars == <<par_vars, config, load_vars, fwd_vars>>

\* ------------------------------------------------------------------ config
\* hasattr(config, name)
hasattr(cfg, name) == name \in DOMAIN cfg
\* truth value of a string or None
Truthy(x) == x \notin {None, ""}

\* fields every configuration has; problem_type defaults to None
BaseConfigs == {("num_labels" :> n) @@ ("problem_type" :> None) : n \in 0..MaxLabels}
DefaultConfig == ("num_labels" :> MaxLabels) @@ ("problem_type" :> None)
OptionalField(name, values) == {<< >>} \cup {(name :> v) : v \in values}

\* ------------------------------------------ construction, checkpoint loading
\* names of the foreign checkpoint, as sequences of their dotted parts
FbKeys == { <<"downsample_layers", "weight">>, <<"norm", "weight">>,
            <<"head", "weight">>, <<"head", "bias">>, <<"model_ema", "decay">> }

\* "head" in fb_tensor_name
ContainsHead(fb_tensor_name) ==
    \E i \in DOMAIN fb_tensor_name : fb_tensor_name[i] = "head"

\* the static name substitution; None for a name it does not cover
fb_to_hf_name(fb_tensor_name) ==
    CASE fb_tensor_name = <<"downsample_layers", "weight">> -> "convnext.embeddings.weight"
      [] fb_tensor_name = <<"norm", "weight">> -> "convnext.layernorm.weight"
      [] fb_tensor_name = <<"head", "weight">> -> "classifier.weight"
      [] fb_tensor_name = <<"head", "bias">> -> "classifier.bias"
      [] OTHER -> None

\* fb_state_dict[fb_tensor_name]: the tensor the checkpoint holds
FbTensor(fb_tensor_name) ==
    CASE fb_tensor_name = <<"downsample_layers", "weight">> -> 11
      [] fb_tensor_name = <<"norm", "weight">> -> 12
      [] fb_tensor_name = <<"head", "weight">> -> 13
      [] fb_tensor_name = <<"head", "bias">> -> 14
      [] OTHER -> 15

\* values trunc_normal_ may give a weight
InitWeights == {1, 3}

\* the parameters after the original initialiser; the classifier is a
\* Linear layer only when num_labels > 0
OriginalParams(n, w) ==
    LET body == ("convnext.embeddings.weight" :> w) @@ ("convnext.layernorm.weight" :> 1)
    IN IF n > 0 THEN body @@ ("classifier.weight" :> w) @@ ("classifier.bias" :> 0)
       ELSE body

\* lines 25-27
ScaledParams(cfg, params) ==
    IF hasattr(cfg, "head_init_scale") /\ cfg.num_labels > 0
    THEN [name \in DOMAIN params |->
            IF name \in {"classifier.weight", "classifier.bias"}
            THEN params[name] * cfg.head_init_scale
            ELSE params[name]]
    ELSE params

\* default of the load_classifier parameter (line 35), used by line 30
LoadClassifierDefaultOn == TRUE
LoadClassifierDefault == FALSE

\* line 44
UseCheckpointIgnoringHead(hf_tensor_name, fb_tensor_name, lc) ==
    Truthy(hf_tensor_name)
UseCheckpoint(hf_tensor_name, fb_tensor_name, lc) ==
    Truthy(hf_tensor_name) /\ (~ContainsHead(fb_tensor_name) \/ lc)

\* model.load_state_dict(new_state_dict) is strict: it raises on missing and
\* on unexpected keys
StrictLoadOk(params, new) == DOMAIN new = DOMAIN params

\* parallelize() not called
ParIdle ==
    /\ layers_per_ipu = <<1>>
    /\ ipus_per_replica = 1
    /\ depths = [s \in 1..NumStages |-> 0]
    /\ par_pc = "start"
    /\ encoder_layer_ipu = <<>>
    /\ stage_nr = 0
    /\ stage_layer_idx = 0
    /\ global_layer_idx = 0
    /\ ipu_of = << >>

\* forward() not called
FwdIdle ==
    /\ training = TRUE
    /\ last_labels = None
    /\ loss_fct = None
    /\ label_smoothing = 0
    /\ output = [form |-> "tuple", has_loss |-> FALSE]

\* no model under construction
LoadIdle ==
    /\ fb_state_dict = << >>
    /\ state_dict = << >>
    /\ init_pc = "new"
    /\ load_caller = "init"
    /\ load_classifier = FALSE
    /\ key_idx = 1
    /\ new_state_dict = << >>
    /\ load_error = None
    /\ user_calls = 0

Checkpoints ==
    {s \in UNION {[1..n -> FbKeys] : n \in 0..MaxCkptKeys} :
        \A i, j \in DOMAIN s : i # j => s[i] # s[j]}

LoadInit ==
    /\ config \in {b @@ h @@ p :
                     b \in BaseConfigs,
                     h \in OptionalField("head_init_scale", {2}),
                     p \in OptionalField("pretrained_weights_path", {"", "convnext.pth"})}
    /\ fb_state_dict \in Checkpoints
    /\ state_dict = << >>
    /\ init_pc = "new"
    /\ load_caller = "init"
    /\ load_classifier = FALSE
    /\ key_idx = 1
    /\ new_state_dict = << >>
    /\ load_error = None
    /\ user_calls = 0
    /\ ParIdle
    /\ FwdIdle

\* line 23: the original initialiser
OriginalInit ==
    /\ UNCHANGED <<par_vars, config, fwd_vars>>
    /\ init_pc = "new"
    /\ \E w \in InitWeights : state_dict' = OriginalParams(config.num_labels, w)
    /\ init_pc' = "inited"
    /\ UNCHANGED <<fb_state_dict, load_caller, load_classifier, key_idx, new_state_dict,
                   load_error, user_calls>>

\* lines 25-27: scale the classifier
ScaleHead ==
    /\ UNCHANGED <<par_vars, config, fwd_vars>>
    /\ init_pc = "inited"
    /\ state_dict' = ScaledParams(config, state_dict)
    /\ init_pc' = "scaled"
    /\ UNCHANGED <<fb_state_dict, load_caller, load_classifier, key_idx, new_state_dict,
                   load_error, user_calls>>

\* lines 29-30 and 36-39: load the checkpoint when a path is configured
InitLoad ==
    /\ UNCHANGED <<par_vars, config, fwd_vars>>
    /\ init_pc = "scaled"
    /\ IF hasattr(config, "pretrained_weights_path") /\ Truthy(config.pretrained_weights_path)
       THEN /\ init_pc' = "loading"
            /\ load_caller' = "init"
            /\ load_classifier' = LoadClassifierDefault
            /\ key_idx' = 1
            /\ new_state_dict' = << >>
       ELSE /\ init_pc' = "constructed"
            /\ UNCHANGED <<load_caller, load_classifier, key_idx, new_state_dict>>
    /\ UNCHANGED <<fb_state_dict, state_dict, load_error, user_calls>>

\* lines 36-39: a direct call of load_weights_from_fb_model on the model
UserLoad ==
    /\ UNCHANGED <<par_vars, config, fwd_vars>>
    /\ init_pc = "constructed"
    /\ user_calls < MaxLoadCalls
    /\ \E lc \in BOOLEAN : load_classifier' = lc
    /\ init_pc' = "loading"
    /\ load_caller' = "user"
    /\ key_idx' = 1
    /\ new_state_dict' = << >>
    /\ user_calls' = user_calls + 1
    /\ UNCHANGED <<fb_state_dict, state_dict, load_error>>

\* lines 41-49: one iteration of the loop over the checkpoint's keys
LoadKey ==
    /\ UNCHANGED <<par_vars, config, fwd_vars>>
    /\ init_pc = "loading"
    /\ key_idx <= Len(fb_state_dict)
    /\ LET fb_tensor_name == fb_state_dict[key_idx]
           hf_tensor_name == fb_to_hf_name(fb_tensor_name)
       IN IF UseCheckpoint(hf_tensor_name, fb_tensor_name, load_classifier)
          THEN /\ new_state_dict' =
                     (hf_tensor_name :> FbTensor(fb_tensor_name)) @@ new_state_dict
               /\ key_idx' = key_idx + 1
               /\ UNCHANGED <<init_pc, load_error>>
          ELSE IF hf_tensor_name \in DOMAIN state_dict
               THEN /\ new_state_dict' =
                          (hf_tensor_name :> state_dict[hf_tensor_name]) @@ new_state_dict
                    /\ key_idx' = key_idx + 1
                    /\ UNCHANGED <<init_pc, load_error>>
               ELSE /\ init_pc' = "failed"
                    /\ load_error' = "KeyError"
                    /\ UNCHANGED <<new_state_dict, key_idx>>
    /\ UNCHANGED <<fb_state_dict, state_dict, load_caller, load_classifier, user_calls>>

\* line 51
LoadStateDict ==
    /\ UNCHANGED <<par_vars, config, fwd_vars>>
    /\ init_pc = "loading"
    /\ key_idx > Len(fb_state_dict)
    /\ IF StrictLoadOk(state_dict, new_state_dict)
       THEN /\ state_dict' = new_state_dict
            /\ init_pc' = "constructed"
            /\ UNCHANGED load_error
       ELSE /\ init_pc' = "failed"
            /\ load_error' = "RuntimeError"
            /\ UNCHANGED state_dict
    /\ UNCHANGED <<fb_state_dict, load_caller, load_classifier, key_idx, new_state_dict,
                   user_calls>>

LoadNext == OriginalInit \/ ScaleHead \/ InitLoad \/ UserLoad \/ LoadKey \/ LoadStateDict

SpecLoad == LoadInit /\ [][LoadNext]_vars

\* ------------------------------------------------------------ parallelize
RECURSIVE get_layer_ipu(_)
\* the IPU id of each encoder layer: ipu u repeated layers_per_ipu[u] times
get_layer_ipu(table) ==
    IF table = <<>> THEN <<>>
    ELSE get_layer_ipu(SubSeq(table, 1, Len(table) - 1))
           \o [i \in 1..table[Len(table)] |-> Len(table) - 1]

RECURSIVE SumSeq(_)
SumSeq(s) == IF s = <<>> THEN 0 ELSE s[Len(s)] + SumSeq(SubSeq(s, 1, Len(s) - 1))

Embeddings == [kind |-> "embeddings", stage |-> 0, idx |-> 0]
LayerNorm  == [kind |-> "layernorm",  stage |-> 0, idx |-> 0]
Classifier == [kind |-> "classifier", stage |-> 0, idx |-> 0]
EncoderLayer(s, l) == [kind |-> "layer", stage |-> s, idx |-> l]

\* encoder_layer_ipu[global_layer_idx]: Python list subscript with a
\* non-negative index, IndexError past the end
SubscriptClamped(list, g) ==
    IF g < Len(list) THEN [raised |-> FALSE, ipu_id |-> list[g + 1]]
    ELSE [raised |-> FALSE, ipu_id |-> IF list = <<>> THEN 0 ELSE list[Len(list)]]
Subscript(list, g) ==
    IF g < Len(list) THEN [raised |-> FALSE, ipu_id |-> list[g + 1]]
    ELSE [raised |-> TRUE, ipu_id |-> 0]

\* global_layer_idx += 1
IncGlobalStuck(g) == g
IncGlobal(g) == g + 1

\* last_ipu = self.ipu_config.ipus_per_replica - 1
LastIpu(n) == n - 1

ParInit ==
    /\ layers_per_ipu \in UNION {[1..n -> 0..MaxLayersPerIpu] : n \in 1..MaxIpus}
    /\ ipus_per_replica \in 1..MaxIpus
    /\ depths \in [1..NumStages -> 0..MaxDepth]
    /\ par_pc = "start"
    /\ encoder_layer_ipu = <<>>
    /\ stage_nr = 0
    /\ stage_layer_idx = 0
    /\ global_layer_idx = 0
    /\ ipu_of = << >>
    /\ config = DefaultConfig
    /\ LoadIdle
    /\ FwdIdle

\* lines 104-111: embeddings on IPU 0, the layer -> IPU list, the counter
ParEmbedding ==
    /\ UNCHANGED <<config, load_vars, fwd_vars>>
    /\ par_pc = "start"
    /\ ipu_of' = (Embeddings :> 0)
    /\ encoder_layer_ipu' = get_layer_ipu(layers_per_ipu)
    /\ global_layer_idx' = 0
    /\ stage_nr' = 0
    /\ stage_layer_idx' = 0
    /\ par_pc' = "encoder"
    /\ UNCHANGED <<layers_per_ipu, ipus_per_replica, depths>>

\* lines 113-118: one iteration of the inner loop
ParLayer ==
    /\ UNCHANGED <<config, load_vars, fwd_vars>>
    /\ par_pc = "encoder"
    /\ stage_nr < Len(depths)
    /\ stage_layer_idx < depths[stage_nr + 1]
    /\ LET r == Subscript(encoder_layer_ipu, global_layer_idx) IN
         IF r.raised
         THEN /\ par_pc' = "error"
              /\ UNCHANGED <<ipu_of, global_layer_idx, stage_layer_idx>>
         ELSE /\ ipu_of' = ipu_of @@ (EncoderLayer(stage_nr, stage_layer_idx) :> r.ipu_id)
              /\ global_layer_idx' = IncGlobal(global_layer_idx)
              /\ stage_layer_idx' = stage_layer_idx + 1
              /\ par_pc' = "encoder"
    /\ UNCHANGED <<layers_per_ipu, ipus_per_replica, depths, encoder_layer_ipu, stage_nr>>

\* line 112: the outer loop moves to the next stage
ParNextStage ==
    /\ UNCHANGED <<config, load_vars, fwd_vars>>
    /\ par_pc = "encoder"
    /\ stage_nr < Len(depths)
    /\ stage_layer_idx = depths[stage_nr + 1]
    /\ stage_nr' = stage_nr + 1
    /\ stage_layer_idx' = 0
    /\ UNCHANGED <<layers_per_ipu, ipus_per_replica, depths, par_pc, encoder_layer_ipu,
                   global_layer_idx, ipu_of>>

\* lines 120, 138-144: the mixin returns, the head goes to the last IPU
ParHead ==
    /\ UNCHANGED <<config, load_vars, fwd_vars>>
    /\ par_pc = "encoder"
    /\ stage_nr = Len(depths)
    /\ LET last_ipu == LastIpu(ipus_per_replica) IN
         ipu_of' = ipu_of @@ (LayerNorm :> last_ipu) @@ (Classifier :> last_ipu)
    /\ par_pc' = "done"
    /\ UNCHANGED <<layers_per_ipu, ipus_per_replica, depths, encoder_layer_ipu,
                   stage_nr, stage_layer_idx, global_layer_idx>>

ParNext == ParEmbedding \/ ParLayer \/ ParNextStage \/ ParHead

SpecPar == ParInit /\ [][ParNext]_vars

\* ------------------------------------------------------------------ forward
LabelDtypes == {"long", "int", "float"}
\* values of config.smoothing, in percent
Smoothings == {0, 10}

\* lines 157-159
Smoothing(cfg) == IF hasattr(cfg, "smoothing") THEN cfg.smoothing ELSE 0

\* lines 164-171
SelectProblemTypeLongOnly(n, dtype) ==
    IF n = 1 THEN "regression"
    ELSE IF n > 1 /\ dtype = "long" THEN "single_label_classification"
    ELSE "multi_label_classification"
SelectProblemType(n, dtype) ==
    IF n = 1 THEN "regression"
    ELSE IF n > 1 /\ (dtype = "long" \/ dtype = "int") THEN "single_label_classification"
    ELSE "multi_label_classification"

\* lines 163-171: config.problem_type after a call with labels
ProblemTypeAfterReselect(pt, n, dtype) == SelectProblemType(n, dtype)
ProblemTypeAfter(pt, n, dtype) ==
    IF pt = None THEN SelectProblemType(n, dtype) ELSE pt

\* lines 173-185: the loss function of each problem type
LossFct(pt) ==
    CASE pt = "regression" -> "MSELoss"
      [] pt = "single_label_classification" -> "CrossEntropyLoss"
      [] pt = "multi_label_classification" -> "SoftTargetCrossEntropy"
      [] OTHER -> None

\* line 181: the truth value of self.eval, a bound method
SelfEval == TRUE

\* lines 180-182: label_smoothing of the CrossEntropyLoss used
LabelSmoothing(cfg) == IF SelfEval THEN 0 ELSE Smoothing(cfg)

\* lines 188-196
Output(return_dict, fct) ==
    IF return_dict
    THEN [form |-> "ImageClassifierOutputWithNoAttention", has_loss |-> fct # None]
    ELSE [form |-> "tuple", has_loss |-> fct # None]

FwdInit ==
    /\ config \in {b @@ sm : b \in BaseConfigs, sm \in OptionalField("smoothing", Smoothings)}
    /\ training \in BOOLEAN
    /\ last_labels = None
    /\ loss_fct = None
    /\ label_smoothing = 0
    /\ output = [form |-> "tuple", has_loss |-> FALSE]
    /\ ParIdle
    /\ LoadIdle

\* lines 147-196: one call of forward(); labels is None or a dtype
Forward ==
    /\ UNCHANGED <<par_vars, load_vars, training>>
    /\ \E labels \in {None} \cup LabelDtypes, return_dict \in BOOLEAN :
         /\ last_labels' = labels
         /\ IF labels = None
            THEN /\ UNCHANGED config
                 /\ loss_fct' = None
                 /\ label_smoothing' = 0
                 /\ output' = Output(return_dict, None)
            ELSE LET pt == ProblemTypeAfter(config.problem_type, config.num_labels, labels)
                     fct == LossFct(pt)
                 IN /\ config' = [config EXCEPT !.problem_type = pt]
                    /\ loss_fct' = fct
                    /\ label_smoothing' =
                         IF fct = "CrossEntropyLoss" THEN LabelSmoothing(config) ELSE 0
                    /\ output' = Output(return_dict, fct)

FwdNext == Forward

SpecFwd == FwdInit /\ [][FwdNext]_vars

\* ------------------------------------------------------ properties: forward
ProblemTypes ==
    {"regression", "single_label_classification", "multi_label_classification"}

\* C3 (as claimed): the loss function of a call with labels is the one the
\* label dtype and num_labels alone select, whatever the earlier calls were.
C3_LossDependsOnLabelsOnly ==
    last_labels # None =>
        loss_fct =
          IF config.num_labels = 1 THEN "MSELoss"
          ELSE IF config.num_labels > 1 /\ last_labels \in {"long", "int"}
               THEN "CrossEntropyLoss"
               ELSE "SoftTargetCrossEntropy"

\* C6: a call with labels that finds problem_type unset sets it to
\* regression for one label, to single_label_classification for more than
\* one label and integer labels, to multi_label_classification otherwise;
\* the loss function is MSELoss, CrossEntropyLoss and SoftTargetCrossEntropy
\* respectively, so the call returns a loss.
C6_ThreeProblemTypes ==
    [][ last_labels' # None =>
          /\ config.problem_type = None =>
               config'.problem_type =
                 IF config.num_labels = 1 THEN "regression"
                 ELSE IF config.num_labels > 1 /\ last_labels' \in {"long", "int"}
                      THEN "single_label_classification"
                      ELSE "multi_label_classification"
          /\ config'.problem_type \in ProblemTypes
          /\ config'.problem_type = "regression" => loss_fct' = "MSELoss"
          /\ config'.problem_type = "single_label_classification"
                => loss_fct' = "CrossEntropyLoss"
          /\ config'.problem_type = "multi_label_classification"
                => loss_fct' = "SoftTargetCrossEntropy"
          /\ output'.has_loss
      ]_vars

\* a call with int labels on a model with several labels chose the
\* single-label type and returned a loss
C6_Witness ==
    /\ last_labels = "int"
    /\ config.num_labels > 1
    /\ config.problem_type = "single_label_classification"
    /\ loss_fct = "CrossEntropyLoss"
    /\ output.has_loss

\* C8: a call without labels leaves config.problem_type as it is, a call
\* with labels sets it when it is unset, and no call changes it once it is
\* set.
C8_ProblemTypeWrittenOnce ==
    [][ /\ last_labels' = None => config'.problem_type = config.problem_type
        /\ (last_labels' # None /\ config.problem_type = None)
              => config'.problem_type # None
        /\ config.problem_type # None => config'.problem_type = config.problem_type
      ]_vars

\* the problem type was set by float labels and a later call had long labels
C8_Witness ==
    /\ config.num_labels > 1
    /\ config.problem_type = "multi_label_classification"
    /\ last_labels = "long"

\* C9 (as claimed): the single-label loss smooths labels by config.smoothing
\* in training mode and does not smooth in evaluation mode.
C9_SmoothingInTraining ==
    (last_labels # None /\ loss_fct = "CrossEntropyLoss") =>
        label_smoothing = IF training THEN Smoothing(config) ELSE 0

\* ------------------------------------------------- properties: parallelize
\* position of layer l of stage s (both 0-based) in the order of the walk
LayerOrder(s, l) == SumSeq(SubSeq(depths, 1, s)) + l
PlacedLayers == {b \in DOMAIN ipu_of : b.kind = "layer"}
\* number of layers the table covers
Covered == SumSeq(layers_per_ipu)

\* C1 (as claimed): once parallelize() has completed, every device index
\* given to a block lies in 0 .. ipus_per_replica - 1.
C1_AllIndicesWithinUnits ==
    par_pc = "done" =>
        \A b \in DOMAIN ipu_of : ipu_of[b] \in 0..(ipus_per_replica - 1)

\* C4: the embeddings are on unit 0; the layer at position g of the walk
\* (one counter over all stages) is on the unit u with
\* sum(layers_per_ipu[0..u-1]) <= g < sum(layers_per_ipu[0..u]); units are
\* non-decreasing in layer order; when the table's total equals the layer
\* count, unit u receives exactly layers_per_ipu[u] layers.
C4_LinearAssignment ==
    /\ Embeddings \in DOMAIN ipu_of => ipu_of[Embeddings] = 0
    /\ \A b \in PlacedLayers :
         LET g == LayerOrder(b.stage, b.idx)
             u == ipu_of[b]
         IN /\ u \in 0..(Len(layers_per_ipu) - 1)
            /\ SumSeq(SubSeq(layers_per_ipu, 1, u)) <= g
            /\ g < SumSeq(SubSeq(layers_per_ipu, 1, u + 1))
    /\ \A b1, b2 \in PlacedLayers :
         LayerOrder(b1.stage, b1.idx) <= LayerOrder(b2.stage, b2.idx)
            => ipu_of[b1] <= ipu_of[b2]
    /\ (par_pc = "done" /\ Covered = SumSeq(depths)) =>
         \A u \in 0..(Len(layers_per_ipu) - 1) :
            Cardinality({b \in PlacedLayers : ipu_of[b] = u}) = layers_per_ipu[u + 1]

\* a completed placement whose table total equals the layer count, in which
\* the first layer of the second stage is on a later unit than unit 0
C4_Witness ==
    /\ par_pc = "done"
    /\ Covered = SumSeq(depths)
    /\ depths[1] = 2
    /\ EncoderLayer(1, 0) \in DOMAIN ipu_of
    /\ ipu_of[EncoderLayer(1, 0)] >= 1
    /\ ipu_of[EncoderLayer(0, 1)] = 0

\* C7: with more encoder layers than the table covers, parallelize() never
\* completes and always can go on until it raises; it raises at the first
\* uncovered layer, which is given no unit; the embeddings and the covered
\* layers stay annotated and the head is not placed.
C7_UncoveredLayerRaises ==
    /\ SumSeq(depths) > Covered => par_pc # "done"
    /\ par_pc \in {"start", "encoder"} => ENABLED ParNext
    /\ par_pc = "error" =>
         /\ SumSeq(depths) > Covered
         /\ global_layer_idx = Covered
         /\ LayerOrder(stage_nr, stage_layer_idx) = Covered
         /\ EncoderLayer(stage_nr, stage_layer_idx) \notin DOMAIN ipu_of
         /\ Embeddings \in DOMAIN ipu_of
         /\ Cardinality(PlacedLayers) = Covered
         /\ \A b \in PlacedLayers : LayerOrder(b.stage, b.idx) < Covered
         /\ LayerNorm \notin DOMAIN ipu_of
         /\ Classifier \notin DOMAIN ipu_of

\* parallelize() has raised in the second stage, after annotating layers
C7_Witness ==
    /\ par_pc = "error"
    /\ stage_nr = 1
    /\ Cardinality(PlacedLayers) >= 2

\* ----------------------------------------- properties: checkpoint loading
\* the key the loop of load_weights_from_fb_model is at
CurrentKey == fb_state_dict[key_idx]
ClassifierNames == {"classifier.weight", "classifier.bias"}
CheckpointConfigured ==
    hasattr(config, "pretrained_weights_path") /\ Truthy(config.pretrained_weights_path)

\* C2 (as claimed): every key of the foreign state dictionary the loop has
\* passed has its mapped name in the new state dictionary, holding the
\* checkpoint tensor or the model's value, and the load never fails at a key
\* for which fb_to_hf_name yields no mapping.
C2_UnmappedKeyFallsBack ==
    /\ init_pc = "loading" =>
         \A i \in 1..(key_idx - 1) :
            LET hf == fb_to_hf_name(fb_state_dict[i])
            IN Truthy(hf) =>
                 /\ hf \in DOMAIN new_state_dict
                 /\ \/ new_state_dict[hf] = FbTensor(fb_state_dict[i])
                    \/ /\ hf \in DOMAIN state_dict
                       /\ new_state_dict[hf] = state_dict[hf]
    /\ ~(/\ init_pc = "failed"
         /\ load_error = "KeyError"
         /\ ~Truthy(fb_to_hf_name(CurrentKey)))

\* C5: while the loop runs, a mapped key it has passed holds the model's
\* current value when its name contains "head" and load_classifier is
\* false, and the checkpoint tensor otherwise (also for a head key when
\* load_classifier is true).
C5_HeadKeysKeepCurrentValue ==
    init_pc = "loading" =>
        \A i \in 1..(key_idx - 1) :
            LET fb == fb_state_dict[i]
                hf == fb_to_hf_name(fb)
            IN Truthy(hf) =>
                 /\ hf \in DOMAIN new_state_dict
                 /\ IF ContainsHead(fb) /\ ~load_classifier
                    THEN /\ hf \in DOMAIN state_dict
                         /\ new_state_dict[hf] = state_dict[hf]
                    ELSE new_state_dict[hf] = FbTensor(fb)

\* load_classifier is false and the loop has passed a head key and a key
\* outside the head, whose tensors differ from the model's values
C5_Witness ==
    /\ init_pc = "loading"
    /\ ~load_classifier
    /\ \E i, j \in 1..(key_idx - 1) :
         /\ ContainsHead(fb_state_dict[i])
         /\ state_dict[fb_to_hf_name(fb_state_dict[i])] # FbTensor(fb_state_dict[i])
         /\ ~ContainsHead(fb_state_dict[j])
         /\ Truthy(fb_to_hf_name(fb_state_dict[j]))
         /\ state_dict[fb_to_hf_name(fb_state_dict[j])] # FbTensor(fb_state_dict[j])

\* C10: the original initialiser runs first; then the classifier weight and
\* bias are multiplied by head_init_scale exactly when the config has the
\* field and num_labels > 0; then the checkpoint is loaded exactly when a
\* non-empty path is configured, with load_classifier false; the load of the
\* constructor leaves the classifier parameters as they were, so a model
\* constructed with a checkpoint has the scaled initial classifier.
C10_ConstructionOrder ==
    [][ /\ init_pc = "new" =>
             /\ init_pc' = "inited"
             /\ \E w \in InitWeights :
                    state_dict' = OriginalParams(config.num_labels, w)
        /\ init_pc = "inited" =>
             /\ init_pc' = "scaled"
             /\ DOMAIN state_dict' = DOMAIN state_dict
             /\ \A name \in DOMAIN state_dict :
                    state_dict'[name] =
                      IF /\ name \in ClassifierNames
                         /\ hasattr(config, "head_init_scale")
                         /\ config.num_labels > 0
                      THEN state_dict[name] * config.head_init_scale
                      ELSE state_dict[name]
        /\ init_pc = "scaled" =>
             /\ state_dict' = state_dict
             /\ IF CheckpointConfigured
                THEN init_pc' = "loading" /\ ~load_classifier' /\ load_caller' = "init"
                ELSE init_pc' = "constructed"
        /\ (init_pc = "loading" /\ load_caller = "init") =>
             /\ init_pc' \in {"loading", "constructed", "failed"}
             /\ \A name \in ClassifierNames \cap DOMAIN state_dict :
                    /\ name \in DOMAIN state_dict'
                    /\ state_dict'[name] = state_dict[name]
        /\ (init_pc' = "constructed" /\ user_calls' = 0 /\ config.num_labels > 0) =>
             /\ state_dict'["classifier.weight"] \in
                    {w * (IF hasattr(config, "head_init_scale")
                          THEN config.head_init_scale ELSE 1) : w \in InitWeights}
             /\ state_dict'["classifier.bias"] = 0
      ]_vars

\* a model constructed with a checkpoint that holds head tensors: the rest
\* of the checkpoint is loaded, the classifier is the scaled initial one
C10_Witness ==
    /\ init_pc = "constructed"
    /\ user_calls = 0
    /\ CheckpointConfigured
    /\ hasattr(config, "head_init_scale")
    /\ \E i \in DOMAIN fb_state_dict : fb_state_dict[i] = <<"head", "weight">>
    /\ state_dict["convnext.embeddings.weight"] = FbTensor(<<"downsample_layers", "weight">>)
    /\ state_dict["classifier.weight"] \in {w * config.head_init_scale : w \in InitWeights}
====
